---- MODULE Spec2Model ----
(***************************************************************************)
(* Truncated spectral decomposition engine of ITensor (svdalgs.cc):        *)
(* truncate, svdRank2 (ITensor / IQTensor) and diag_hermitian (ITensor /   *)
(* IQTensor).                                                              *)
(*                                                                         *)
(* LocalOp (localop.h): the projected operator whose deltaRho feeds the    *)
(* decompositions.                                                         *)
(*                                                                         *)
(* Real numbers are modelled exactly.  Weights, singular values, cutoffs   *)
(* and scales are integers; a quotient is a pair <<num, den>>; docut is    *)
(* kept as its numerator over the fixed denominator InvEps.                *)
(***************************************************************************)
EXTENDS Integers, Sequences, FiniteSets, TLC

VARIABLES
    op,         \* the function that was called ("none" before any call)
    args,       \* the arguments of the call
    trunc,      \* the invocation of truncate made by the call (NoCall if none)
    again,      \* a second truncate call on the Vec the first one left
    U,          \* caller's output tensor U
    D,          \* caller's output tensor D
    V,          \* caller's output tensor V
    ret,        \* the returned Spectrum (NoRet before return / on a throw)
    outcome,    \* "pending", "ok", "Error" (Error(...)) or "ResultIsZero"
    kernelCalls, \* number of SVD / diagSymmetric kernel calls made
    lop         \* a LocalOp object: Op1_, Op2_, L_, R_, size_, nc_

vars == <<op, args, trunc, again, U, D, V, ret, outcome, kernelCalls, lop>>

----------------------------------------------------------------------------
(* Bounds of the model *)

MaxLen == 3      \* longest Vec handed to truncate directly
MaxWeight == 2   \* largest weight of such a Vec
MaxM == 3        \* largest Maxm / Minm
MaxCut == 2      \* largest Cutoff
MaxDim == 2      \* largest dimension of a dense matrix
MaxSing == 1     \* largest singular value of a dense matrix
MaxBlocks == 2   \* largest number of populated blocks of an IQTensor
MaxBlockDim == 1 \* largest dimension of a block
MaxBlockSing == 2 \* largest singular value of a block
MaxSiteDim == 2   \* largest dimension of an index LocalOp::size() reads
MaxRhoDim == 2    \* dimension of the matrix deltaRho returns
MaxEntry == 1     \* largest entry of the vector deltaRho squares

(* docut = (P(m+1) + P(m))/2. - 1E-5*P(m+1): the numbers are kept over the
   denominator 1/1E-5 *)
InvEps == 100000

Min(a, b) == IF a < b THEN a ELSE b
Max(a, b) == IF a > b THEN a ELSE b

RECURSIVE SumRange(_, _, _)
SumRange(s, lo, hi) == IF lo > hi THEN 0 ELSE s[lo] + SumRange(s, lo + 1, hi)

(* descending sequences of length n over lo..hi *)
DescSeqs(n, lo, hi) ==
    { s \in [1..n -> lo..hi] : \A i \in 1..(n - 1) : s[i] >= s[i + 1] }

(* exact quotient num/den, zero normalised *)
Quot(num, den) == IF num = 0 THEN <<0, 1>> ELSE <<num, den>>
QuotEq(q, r) == q[1] * r[2] = r[1] * q[2]

(* what a read outside a Vec's storage may return *)
Garbage == {-1, 0, 2}

NoCall == [called |-> FALSE]
NoRet == [returned |-> FALSE]
Unassigned == [assigned |-> FALSE]

----------------------------------------------------------------------------
(* truncate, svdalgs.cc:117-174 *)

(* Vec::operator()(m), 1-indexed; a read outside 1..size is undefined and
   yields the value oob *)
ReadP(P, m, oob) == IF m \in 1..Len(P) THEN P[m] ELSE oob

(* lines 135-140: zero out negative weight from the tail *)
RECURSIVE ZeroNegative(_, _)
ZeroNegative(P, zerom) ==
    IF zerom > 0 /\ P[zerom] < 0
    THEN ZeroNegative([P EXCEPT ![zerom] = 0], zerom - 1)
    ELSE P

(* lines 146 / 154: for(; m > maxm; --m) truncerr += P(m) *)
RECURSIVE CutToMaxm(_, _, _, _, _)
CutToMaxm(P, m, maxm, truncerr, oob) ==
    IF m > maxm
    THEN CutToMaxm(P, m - 1, maxm, truncerr + ReadP(P, m, oob), oob)
    ELSE <<m, truncerr>>

(* line 148 with <= in place of < *)
RECURSIVE AbsoluteLoopInclusive(_, _, _, _, _, _)
AbsoluteLoopInclusive(P, m, minm, cutoff, truncerr, oob) ==
    IF ReadP(P, m, oob) <= cutoff /\ m > minm
    THEN AbsoluteLoopInclusive(P, m - 1, minm, cutoff,
                               truncerr + ReadP(P, m, oob), oob)
    ELSE <<m, truncerr>>

(* line 148: for(; P(m) < cutoff && m > minm; --m) truncerr += P(m) *)
RECURSIVE AbsoluteLoop(_, _, _, _, _, _)
AbsoluteLoop(P, m, minm, cutoff, truncerr, oob) ==
    IF ReadP(P, m, oob) < cutoff /\ m > minm
    THEN AbsoluteLoop(P, m - 1, minm, cutoff, truncerr + ReadP(P, m, oob), oob)
    ELSE <<m, truncerr>>

(* line 156 with <= in place of < *)
RECURSIVE CumulativeLoopInclusive(_, _, _, _, _, _, _)
CumulativeLoopInclusive(P, m, minm, cutoff, scale, truncerr, oob) ==
    IF truncerr + ReadP(P, m, oob) <= cutoff * scale /\ m > minm
    THEN CumulativeLoopInclusive(P, m - 1, minm, cutoff, scale,
                                 truncerr + ReadP(P, m, oob), oob)
    ELSE <<m, truncerr>>

(* lines 156-159: for(; truncerr+P(m) < cutoff*scale && m > minm; --m) *)
RECURSIVE CumulativeLoop(_, _, _, _, _, _, _)
CumulativeLoop(P, m, minm, cutoff, scale, truncerr, oob) ==
    IF truncerr + ReadP(P, m, oob) < cutoff * scale /\ m > minm
    THEN CumulativeLoop(P, m - 1, minm, cutoff, scale,
                        truncerr + ReadP(P, m, oob), oob)
    ELSE <<m, truncerr>>

(* line 160 without the division by scale *)
NormalizeUnscaled(P, truncerr, scale, oob) == Quot(truncerr, 1)

(* line 160: truncerr = (P(1) == 0 ? 0 : truncerr/scale) *)
Normalize(P, truncerr, scale, oob) ==
    IF ReadP(P, 1, oob) = 0 THEN Quot(0, 1) ELSE Quot(truncerr, scale)

(* line 170 left out *)
ResizeForgotten(P, m) == P

(* line 170: P.resize(m); new entries are zero *)
Resize(P, m) == [i \in 1..m |-> IF i <= Len(P) THEN P[i] ELSE 0]

(* line 163 left out *)
ClampNoFloor(m) == m

(* line 163: if(m < 1) m = 1 *)
Clamp(m) == IF m < 1 THEN 1 ELSE m

(* lines 165-168: if(m < origm) docut = (P(m+1) + P(m))/2. - 1E-5*P(m+1) *)
Docut(P, m, origm, docut, oob) ==
    IF m < origm
    THEN (InvEps \div 2) * (ReadP(P, m + 1, oob) + ReadP(P, m, oob))
         - ReadP(P, m + 1, oob)
    ELSE docut

(* line 131 with the halving left out *)
SingleEntryDocutWhole(P) == InvEps * P[1]

(* line 131: docut = P(1)/2. *)
SingleEntryDocut(P) == (InvEps \div 2) * P[1]

(* the whole function; the result holds the Vec as left in P, the outputs m
   and docut, and the returned truncerr *)
truncate(P, maxm, minm, cutoff, absoluteCutoff, doRelCutoff, docut, oob) ==
    LET origm == Len(P) IN
    IF origm = 1
    THEN [P |-> P, m |-> 1, docut |-> SingleEntryDocut(P),
          truncerr |-> Quot(0, 1)]
    ELSE
      LET Pz == ZeroNegative(P, origm)
          cut == CutToMaxm(Pz, origm, maxm, 0, oob)
          scale == IF doRelCutoff THEN ReadP(Pz, 1, oob) ELSE 1
          fin == IF absoluteCutoff
                 THEN AbsoluteLoop(Pz, cut[1], minm, cutoff, cut[2], oob)
                 ELSE CumulativeLoop(Pz, cut[1], minm, cutoff, scale, cut[2], oob)
          err == IF absoluteCutoff
                 THEN Quot(fin[2], 1)
                 ELSE Normalize(Pz, fin[2], scale, oob)
          m == Clamp(fin[1])
      IN [P |-> Resize(Pz, m), m |-> m,
          docut |-> Docut(Pz, m, origm, docut, oob),
          truncerr |-> err]

(* the record kept of one invocation *)
TruncCall(P, maxm, minm, cutoff, absoluteCutoff, doRelCutoff, docut, oob) ==
    LET r == truncate(P, maxm, minm, cutoff, absoluteCutoff, doRelCutoff,
                      docut, oob)
    IN [called |-> TRUE, Pin |-> P, maxm |-> maxm, minm |-> minm,
        cutoff |-> cutoff, absoluteCutoff |-> absoluteCutoff,
        doRelCutoff |-> doRelCutoff, oob |-> oob,
        P |-> r.P, m |-> r.m, docut |-> r.docut, truncerr |-> r.truncerr]

----------------------------------------------------------------------------
(* State machine: a specification's Init draws the arguments of one call
   (and what the environment answers: kernel results, out-of-range reads);
   the action of the called function applies it *)

(* LocalOp::LocalOp(), part_000:172-182 *)
nullptr == [null |-> TRUE]

LocalOp_default ==
    [Op1_ |-> nullptr, Op2_ |-> nullptr, L_ |-> nullptr, R_ |-> nullptr,
     size_ |-> -1, nc_ |-> 0]

Blank ==
    /\ op = "none"
    /\ lop = LocalOp_default
    /\ trunc = NoCall
    /\ again = NoCall
    /\ U = Unassigned
    /\ D = Unassigned
    /\ V = Unassigned
    /\ ret = NoRet
    /\ outcome = "pending"
    /\ kernelCalls = 0

(* Vecs handed to truncate: descending, the tail possibly negative noise *)
Spectra == UNION { DescSeqs(n, -1, MaxWeight) : n \in 1..MaxLen }

InitTruncate ==
    /\ Blank
    /\ args \in { [fn |-> "truncate", P |-> P, maxm |-> maxm, minm |-> minm,
                   cutoff |-> cutoff, absoluteCutoff |-> ac,
                   doRelCutoff |-> rc, oob |-> oob] :
                    P \in Spectra, maxm \in 0..MaxM, minm \in 0..MaxM,
                    cutoff \in 0..MaxCut, ac \in BOOLEAN, rc \in BOOLEAN,
                    oob \in Garbage }
    /\ args.minm <= args.maxm

(* a call of truncate as its callers make it: docut = -1 on entry *)
Truncate ==
    /\ op = "none"
    /\ args.fn = "truncate"
    /\ trunc' = TruncCall(args.P, args.maxm, args.minm, args.cutoff,
                          args.absoluteCutoff, args.doRelCutoff, -InvEps,
                          args.oob)
    /\ op' = "truncate"
    /\ outcome' = "ok"
    /\ UNCHANGED <<args, again, U, D, V, ret, kernelCalls, lop>>

(* truncate applied, with the same policy, to the Vec the first call left *)
TruncateAgain ==
    /\ op = "truncate"
    /\ again = NoCall
    /\ again' = TruncCall(trunc.P, trunc.maxm, trunc.minm, trunc.cutoff,
                          trunc.absoluteCutoff, trunc.doRelCutoff,
                          trunc.docut, trunc.oob)
    /\ UNCHANGED <<op, args, trunc, U, D, V, ret, outcome, kernelCalls, lop>>

NextTruncate == Truncate \/ TruncateAgain

SpecTruncate == InitTruncate /\ [][NextTruncate]_vars

----------------------------------------------------------------------------
(* Dense matrices: [nr, nc, a] with a[i][j] the entry of row i, column j *)

Transpose(M) ==
    [nr |-> M.nc, nc |-> M.nr,
     a |-> [i \in 1..M.nc |-> [j \in 1..M.nr |-> M.a[j][i]]]]

(* Mat::reduceColsTo(m) *)
ReduceColsTo(M, m) ==
    [nr |-> M.nr, nc |-> Min(m, M.nc),
     a |-> [i \in 1..M.nr |-> [j \in 1..Min(m, M.nc) |-> M.a[i][j]]]]

(* cyclic-shift matrices and their negatives: orthogonal matrices with
   integer entries *)
Shift(n, k, sign) ==
    [nr |-> n, nc |-> n,
     a |-> [i \in 1..n |->
              [j \in 1..n |-> IF j = ((i - 1 + k) % n) + 1 THEN sign ELSE 0]]]

(* The SVD kernel SVD(M,UU,DD,VV,thresh,northpass): an oracle with the
   contract M = UU * diag(DD) * VV^T, DD descending and non-negative.  Its
   possible results on n x n matrices: *)
SVDResults(n) ==
    { [UU |-> Shift(n, ku, su), DD |-> dd, VV |-> Shift(n, kv, 1)] :
        ku \in 0..(n - 1), su \in {-1, 1}, kv \in 0..(n - 1),
        dd \in DescSeqs(n, 0, MaxSing) }
    \cup (IF n = 0 THEN { [UU |-> Shift(0, 0, 1), DD |-> <<>>,
                           VV |-> Shift(0, 0, 1)] } ELSE {})

(* the matrix a kernel result factors: UU * diag(DD) * VV^T *)
Factored(f) ==
    [nr |-> f.UU.nr, nc |-> f.VV.nr,
     a |-> [i \in 1..f.UU.nr |-> [j \in 1..f.VV.nr |->
              SumRange([k \in 1..Len(f.DD) |->
                          f.UU.a[i][k] * f.DD[k] * f.VV.a[j][k]],
                       1, Len(f.DD))]]]

(* the kernel results with the matrices they factor, by dimension *)
SVDTable == [n \in 0..MaxDim |-> { <<Factored(f), f>> : f \in SVDResults(n) }]

(* what the kernel may answer when handed M *)
SVD(M) == { q[2] : q \in { q \in SVDTable[M.nr] : q[1] = M } }

(* the n x n matrices the model decomposes *)
Stores(n) == { q[1] : q \in SVDTable[n] }

(* toMatRefc, svdalgs.cc:45-55: the storage of T viewed as an i1 x i2
   matrix, transposed when i1 is not T's first index *)
toMatRefc(store, i1IsFront) ==
    IF i1IsFront THEN store ELSE Transpose(store)

(* LogNumber::sign() of a scale *)
Sign(x) == IF x < 0 THEN -1 ELSE IF x > 0 THEN 1 ELSE 0
Abs(x) == IF x < 0 THEN -x ELSE x

sqr(x) == x * x

SqrAll(v) == [j \in 1..Len(v) |-> sqr(v[j])]
ScaleVec(v, c) == [j \in 1..Len(v) |-> v[j] * c]

(* line 303 with the sign of the scale ignored *)
SignfixAlwaysPlus(scale) == 1

(* lines 302-303: Fix sign to make sure D has positive elements *)
Signfix(scale) == IF Sign(scale) = -1 THEN -1 ELSE 1

(* Args the decompositions read, with the defaults the source gives them
   (Maxm defaults to MAX_M, a number larger than any dimension here) *)
MAX_M == 5000

DefaultPolicy ==
    [maxm |-> MAX_M, minm |-> 1, cutoff |-> 0,
     absoluteCutoff |-> FALSE, doRelCutoff |-> FALSE]

DensePolicies ==
    { [maxm |-> mx, minm |-> 1, cutoff |-> c,
       absoluteCutoff |-> md[1], doRelCutoff |-> md[2]] :
        mx \in 1..MaxDim, c \in {0, 1},
        md \in {<<TRUE, FALSE>>, <<FALSE, TRUE>>} }

(* Truncate / ShowEigs with the policy *)
DenseArgs ==
    { [do_truncate |-> FALSE, show_eigs |-> se, policy |-> DefaultPolicy] :
        se \in BOOLEAN }
    \cup
    { [do_truncate |-> TRUE, show_eigs |-> se, policy |-> p] :
        se \in BOOLEAN, p \in DensePolicies }

(* the tensor's rank and number type, and whether the build defines DEBUG *)
TensorKinds ==
    { [rank |-> 2, cplx |-> FALSE, DEBUG |-> FALSE],
      [rank |-> 2, cplx |-> FALSE, DEBUG |-> TRUE],
      [rank |-> 3, cplx |-> FALSE, DEBUG |-> FALSE],
      [rank |-> 3, cplx |-> FALSE, DEBUG |-> TRUE],
      [rank |-> 2, cplx |-> TRUE, DEBUG |-> FALSE] }

Scales == {-2, 1, 2}

----------------------------------------------------------------------------
(* svdRank2(ITensor), svdalgs.cc:217-338 *)

(* the outputs of the call for tensor kind k, A = scale * store with ui
   A's first index iff uiFirst, Args a, f the kernel's answer to
   SVD(toMatRefc(A,ui,vi),...), and oob what an out-of-range read of probs
   returns *)
svdRank2_ITensor(k, store, uiFirst, scale, a, f, oob) ==
    IF k.DEBUG /\ k.rank # 2
    THEN [outcome |-> "Error", kernelCalls |-> 0]      \* line 243
    ELSE IF k.cplx
    THEN [outcome |-> "Error", kernelCalls |-> 0]      \* line 257
    ELSE
      LET probs == SqrAll(f.DD)
          t == IF a.do_truncate
               THEN TruncCall(probs, a.policy.maxm, a.policy.minm,
                              a.policy.cutoff, a.policy.absoluteCutoff,
                              a.policy.doRelCutoff, -InvEps, oob)
               ELSE NoCall
          m == IF a.do_truncate THEN Len(t.P) ELSE Len(f.DD)
          DD == IF a.do_truncate THEN Resize(f.DD, m) ELSE f.DD
          UU == IF a.do_truncate THEN ReduceColsTo(f.UU, m) ELSE f.UU
          VV == IF a.do_truncate THEN ReduceColsTo(f.VV, m) ELSE f.VV
          truncerr == IF a.do_truncate THEN t.truncerr ELSE Quot(0, 1)
          signfix == Signfix(scale)
      IN [outcome |-> "ok", kernelCalls |-> 1, trunc |-> t,
          D |-> [assigned |-> TRUE, diag |-> DD, scale |-> scale * signfix],
          U |-> [assigned |-> TRUE, store |-> UU, scale |-> signfix],
          V |-> [assigned |-> TRUE, store |-> VV, scale |-> 1],
          ret |-> [returned |-> TRUE, truncerr |-> truncerr,
                   eigsKept |-> ScaleVec(SqrAll(DD), sqr(scale))]]

InitDenseSvd ==
    /\ Blank
    /\ \E k \in TensorKinds, n \in 0..MaxDim, uiFirst \in BOOLEAN,
          scale \in Scales, a \in DenseArgs, oob \in Garbage :
         \E store \in Stores(n) :
           /\ (~(a.do_truncate /\ n = 0) => oob = 0)  \* no such read otherwise
           /\ args = [fn |-> "svdRank2_ITensor", kind |-> k, store |-> store,
                      uiFirst |-> uiFirst, uim |-> n, vim |-> n,
                      scale |-> scale, args |-> a, oob |-> oob]

SvdRank2ITensor ==
    /\ op = "none"
    /\ args.fn = "svdRank2_ITensor"
    /\ \E f \in SVD(toMatRefc(args.store, args.uiFirst)) :
       \E r \in {svdRank2_ITensor(args.kind, args.store, args.uiFirst,
                                   args.scale, args.args, f, args.oob)} :
          /\ outcome' = r.outcome
          /\ kernelCalls' = r.kernelCalls
          /\ IF r.outcome = "ok"
             THEN /\ trunc' = r.trunc
                  /\ U' = r.U
                  /\ D' = r.D
                  /\ V' = r.V
                  /\ ret' = r.ret
             ELSE UNCHANGED <<trunc, U, D, V, ret>>
    /\ op' = "svdRank2_ITensor"
    /\ UNCHANGED <<args, again, lop>>

----------------------------------------------------------------------------
(* diag_hermitian(ITensor), svdalgs.cc:571-726 *)

(* ascending sequences of length n over lo..hi *)
AscSeqs(n, lo, hi) ==
    { s \in [1..n -> lo..hi] : \A i \in 1..(n - 1) : s[i] <= s[i + 1] }

Reverse(s) == [i \in 1..Len(s) |-> s[Len(s) + 1 - i]]

(* The kernel diagSymmetric(R,UU,DD): an oracle returning the eigenvalues of
   R ascending in DD and the eigenvectors as the columns of UU.  The stored
   matrix is given by its eigenvalues eig (ascending), eigenvector i
   belonging to eig[i]; R is the stored matrix, or its negative when
   negated.  A column of UU is named by the number of its eigenvector. *)
diagSymmetric(eig, negated) ==
    IF negated
    THEN [DD |-> Reverse(ScaleVec(eig, -1)),
          UU |-> [i \in 1..Len(eig) |-> Len(eig) + 1 - i]]
    ELSE [DD |-> eig, UU |-> [i \in 1..Len(eig) |-> i]]

(* the outputs of the call for tensor kind k, rho = scale * (matrix with
   eigenvalues eig), hasUnprimed telling whether rho has an unprimed index *)
diag_hermitian_ITensor(k, hasUnprimed, eig, scale, a, oob) ==
    IF k.DEBUG /\ k.rank # 2
    THEN [outcome |-> "Error", kernelCalls |-> 0]      \* line 591
    ELSE IF ~hasUnprimed
    THEN [outcome |-> "Error", kernelCalls |-> 0]      \* line 606
    ELSE IF k.cplx
    THEN [outcome |-> "Error", kernelCalls |-> 0]      \* line 626
    ELSE
      LET \* line 614: rho.scaleTo(rho.scale()*(-1)) negates the storage
          negated == Sign(scale) < 0
          rhoscale == IF negated THEN -scale ELSE scale
          e == diagSymmetric(eig, negated)
          \* line 666: if(DD(1) < 0) DD *= -1
          DD0 == IF a.do_truncate /\ ReadP(e.DD, 1, oob) < 0
                 THEN ScaleVec(e.DD, -1) ELSE e.DD
          t == IF a.do_truncate
               THEN TruncCall(DD0, a.policy.maxm, a.policy.minm,
                              a.policy.cutoff, a.policy.absoluteCutoff,
                              a.policy.doRelCutoff, -InvEps, oob)
               ELSE NoCall
          DD == IF a.do_truncate THEN t.P ELSE DD0
          m == Len(DD)
          UU == IF a.do_truncate THEN SubSeq(e.UU, 1, Min(m, Len(e.UU)))
                ELSE e.UU
          truncerr == IF a.do_truncate THEN t.truncerr ELSE Quot(0, 1)
      IN [outcome |-> "ok", kernelCalls |-> 1, trunc |-> t, m |-> m,
          kernelDD |-> e.DD,
          U |-> [assigned |-> TRUE, cols |-> UU, scale |-> 1],
          D |-> [assigned |-> TRUE, diag |-> DD, scale |-> rhoscale],
          ret |-> [returned |-> TRUE, truncerr |-> truncerr,
                   eigsKept |-> ScaleVec(DD, rhoscale)]]

InitDenseDiag ==
    /\ Blank
    /\ \E k \in TensorKinds, hasUnprimed \in BOOLEAN, n \in 0..MaxDim,
          scale \in Scales, a \in DenseArgs, oob \in Garbage :
         \E eig \in AscSeqs(n, -MaxSing, MaxSing) :
           /\ (~(a.do_truncate /\ n = 0) => oob = 0)  \* no such read otherwise
           /\ args = [fn |-> "diag_hermitian_ITensor", kind |-> k,
                      hasUnprimed |-> hasUnprimed, eig |-> eig, uim |-> n,
                      scale |-> scale, args |-> a, oob |-> oob]

DiagHermitianITensor ==
    /\ op = "none"
    /\ args.fn = "diag_hermitian_ITensor"
    /\ \E r \in {diag_hermitian_ITensor(args.kind, args.hasUnprimed,
                                         args.eig, args.scale, args.args,
                                         args.oob)} :
          /\ outcome' = r.outcome
          /\ kernelCalls' = r.kernelCalls
          /\ IF r.outcome = "ok"
             THEN /\ trunc' = r.trunc
                  /\ U' = r.U
                  /\ D' = r.D
                  /\ ret' = r.ret
             ELSE UNCHANGED <<trunc, U, D, ret>>
    /\ op' = "diag_hermitian_ITensor"
    /\ UNCHANGED <<args, again, V, lop>>

InitDense == InitDenseSvd \/ InitDenseDiag

NextDense == SvdRank2ITensor \/ DiagHermitianITensor

SpecDense == InitDense /\ [][NextDense]_vars

----------------------------------------------------------------------------
(* svdRank2(IQTensor), svdalgs.cc:340-568 *)

RECURSIVE Concat(_, _)
Concat(vecs, b) == IF b > Len(vecs) THEN <<>> ELSE vecs[b] \o Concat(vecs, b + 1)

(* std::sort(alleig.begin(),alleig.end(),std::greater<Real>{}) *)
RECURSIVE SortDescending(_)
SortDescending(v) ==
    IF Len(v) = 0 THEN <<>>
    ELSE LET i == CHOOSE i \in 1..Len(v) : \A j \in 1..Len(v) : v[i] >= v[j]
         IN <<v[i]>> \o SortDescending(SubSeq(v, 1, i - 1)
                                       \o SubSeq(v, i + 1, Len(v)))

(* the throws of ResultIsZero without the one of line 389 *)
ResultIsZeroCheckNoColumns(Nblock, uIm, vIm) == Nblock = 0 \/ uIm = 0

(* lines 366-367, 388-389: the throws of ResultIsZero *)
ResultIsZeroCheck(Nblock, uIm, vIm) == Nblock = 0 \/ uIm = 0 \/ vIm = 0

(* lines 466-472: while(this_m <= d.size() && sqr(d(this_m)) > docut)
   ++this_m; then --this_m *)
RECURSIVE CountAbove(_, _, _)
CountAbove(d, this_m, docut) ==
    IF this_m <= Len(d) /\ sqr(d[this_m]) * InvEps > docut
    THEN CountAbove(d, this_m + 1, docut)
    ELSE this_m - 1

(* line 485: in the this_m == 0 branch, ++b; continue; -- the loop's own ++b
   follows *)
AfterDropped(b) == (b + 1) + 1

(* lines 461-493: the loop over the blocks from block b on.  st holds m,
   docut, the vectors d (resized or cleared), the blocks whose B.M was
   cleared, and the sectors Liq, Riq built so far *)
RECURSIVE ScanBlocks(_, _, _)
ScanBlocks(b, blocks, st) ==
    IF b > Len(blocks) THEN st
    ELSE
      LET d == st.d[b]
          force == st.m = 0 /\ Len(d) >= 1           \* line 474
          this_m == IF force THEN 1 ELSE CountAbove(d, 1, st.docut)
          st1 == [st EXCEPT !.m = IF force THEN 1 ELSE @,
                            !.docut = IF force THEN InvEps ELSE @]
      IN IF this_m = 0
         THEN ScanBlocks(AfterDropped(b), blocks,
                         [st1 EXCEPT !.d[b] = <<>>,
                                     !.cleared = @ \cup {b}])
         ELSE ScanBlocks(b + 1, blocks,
                         [st1 EXCEPT
                            !.d[b] = Resize(d, this_m),
                            !.Liq = Append(@, [m |-> this_m,
                                               qn |-> <<"uI", 1 + blocks[b].i1>>]),
                            !.Riq = Append(@, [m |-> this_m,
                                               qn |-> <<"vI", 1 + blocks[b].i2>>])])

(* lines 507-549: every block whose B.M was not cleared is copied into
   sector n of the new index, n counting such blocks from 0 *)
RECURSIVE PlaceBlocks(_, _, _, _)
PlaceBlocks(b, n, blocks, st) ==
    IF b > Len(blocks) THEN <<>>
    ELSE IF b \in st.cleared THEN PlaceBlocks(b + 1, n, blocks, st)
    ELSE <<[block |-> b, i1 |-> blocks[b].i1, i2 |-> blocks[b].i2,
            sector |-> n, d |-> st.d[b]]>>
         \o PlaceBlocks(b + 1, n + 1, blocks, st)

(* doTask(GetBlocks), lines 83-112: the blocks with their addresses; block b
   of the storage sits at sector b-1 of the tensor's first index and at
   sector Nblock-b of its second; its singular values (the SVD kernel's
   answer for it) are dvecs[b] *)
GetBlocks(dvecs, transpose) ==
    [b \in 1..Len(dvecs) |->
        IF transpose
        THEN [i1 |-> Len(dvecs) - b, i2 |-> b - 1]
        ELSE [i1 |-> b - 1, i2 |-> Len(dvecs) - b]]

(* the outputs of the call: A = scale * (blocks with singular values
   dvecs), Args a; movedEmpty tells whether alleig is empty after
   std::move(alleig) *)
svdRank2_IQTensor(rank, cplx, dvecs, transpose, uIm, vIm, scale, a, movedEmpty, oob) ==
    IF rank # 2
    THEN [outcome |-> "Error", kernelCalls |-> 0]           \* line 362
    ELSE IF ResultIsZeroCheck(Len(dvecs), uIm, vIm)
    THEN [outcome |-> "ResultIsZero", kernelCalls |-> 0]
    ELSE IF cplx
    THEN [outcome |-> "Error", kernelCalls |-> 0]           \* line 406
    ELSE
      LET blocks == GetBlocks(dvecs, transpose)
          alleig == Concat(dvecs, 1)
          probs == SortDescending(SqrAll(alleig))
          m0 == IF (a.do_truncate \/ a.show_eigs) /\ movedEmpty
                THEN 0 ELSE Len(alleig)                     \* line 445
          t == IF a.do_truncate
               THEN TruncCall(probs, a.policy.maxm, a.policy.minm,
                              a.policy.cutoff, a.policy.absoluteCutoff,
                              a.policy.doRelCutoff, -InvEps, oob)
               ELSE NoCall
          st0 == [m |-> IF a.do_truncate THEN t.m ELSE m0,
                  docut |-> IF a.do_truncate THEN t.docut ELSE -InvEps,
                  d |-> dvecs, cleared |-> {}, Liq |-> <<>>, Riq |-> <<>>]
          st == ScanBlocks(1, blocks, st0)
          placed == PlaceBlocks(1, 0, blocks, st)
          signfix == Signfix(scale)
      IN [outcome |-> "ok", kernelCalls |-> Len(dvecs), trunc |-> t,
          U |-> [assigned |-> TRUE, L |-> st.Liq, placed |-> placed,
                 scale |-> 1],
          D |-> [assigned |-> TRUE, L |-> st.Liq, R |-> st.Riq,
                 placed |-> placed, scale |-> scale * signfix],
          V |-> [assigned |-> TRUE, R |-> st.Riq, placed |-> placed,
                 scale |-> 1],
          ret |-> [returned |-> TRUE,
                   truncerr |-> IF a.do_truncate THEN t.truncerr
                                ELSE Quot(0, 1),
                   eigsKept |-> ScaleVec(alleig, scale)]]

(* singular values of one block: descending, non-negative *)
BlockVecs ==
    UNION { DescSeqs(n, 0, MaxBlockSing) : n \in 1..MaxBlockDim }

BlockSets == UNION { [1..N -> BlockVecs] : N \in 0..MaxBlocks }

BlockPolicies ==
    { [maxm |-> mx, minm |-> 1, cutoff |-> md[1],
       absoluteCutoff |-> md[2], doRelCutoff |-> FALSE] :
        mx \in 1..MaxBlocks, md \in {<<0, FALSE>>, <<1, TRUE>>} }

BlockArgs ==
    { [do_truncate |-> FALSE, show_eigs |-> se, policy |-> DefaultPolicy] :
        se \in BOOLEAN }
    \cup
    { [do_truncate |-> TRUE, show_eigs |-> se, policy |-> p] :
        se \in BOOLEAN, p \in BlockPolicies }

(* the dimension of an IQIndex whose sectors are those of the (square)
   blocks; an index of a tensor without blocks has one sector of dimension 1 *)
TotalDim(dvecs) ==
    IF Len(dvecs) = 0 THEN 1
    ELSE SumRange([b \in 1..Len(dvecs) |-> Len(dvecs[b])], 1, Len(dvecs))

(* real tensors with blocks of non-zero dimension *)
InitBlockSvdReal ==
    /\ Blank
    /\ \E dvecs \in BlockSets, transpose \in BOOLEAN, scale \in {-2, 1},
          a \in BlockArgs, movedEmpty \in BOOLEAN :
          /\ (movedEmpty => (a.show_eigs /\ ~a.do_truncate))
          /\ args = [fn |-> "svdRank2_IQTensor", rank |-> 2, cplx |-> FALSE,
                     dvecs |-> dvecs, transpose |-> transpose,
                     uIm |-> TotalDim(dvecs), vIm |-> TotalDim(dvecs),
                     scale |-> scale, args |-> a, movedEmpty |-> movedEmpty,
                     oob |-> 0]

(* complex tensors, and tensors whose row or column index has dimension 0
   (their blocks hold no singular value) *)
InitBlockSvdDegenerate ==
    /\ Blank
    /\ \E N \in 0..MaxBlocks, cplx \in BOOLEAN,
          zero \in {"none", "uI", "vI"}, a \in BlockArgs :
          /\ (cplx \/ zero # "none")
          /\ a.policy.maxm \in {1, MAX_M}
          /\ args = [fn |-> "svdRank2_IQTensor", rank |-> 2, cplx |-> cplx,
                     dvecs |-> [b \in 1..N |->
                                  IF zero = "none" THEN <<1>> ELSE <<>>],
                     transpose |-> FALSE,
                     uIm |-> IF zero = "uI" THEN 0 ELSE Max(N, 1),
                     vIm |-> IF zero = "vI" THEN 0 ELSE Max(N, 1),
                     scale |-> 1, args |-> a, movedEmpty |-> FALSE,
                     oob |-> 0]

SvdRank2IQTensor ==
    /\ op = "none"
    /\ args.fn = "svdRank2_IQTensor"
    /\ \E r \in {svdRank2_IQTensor(args.rank, args.cplx, args.dvecs,
                                    args.transpose, args.uIm, args.vIm,
                                    args.scale, args.args, args.movedEmpty,
                                    args.oob)} :
          /\ outcome' = r.outcome
          /\ kernelCalls' = r.kernelCalls
          /\ IF r.outcome = "ok"
             THEN /\ trunc' = r.trunc
                  /\ U' = r.U
                  /\ D' = r.D
                  /\ V' = r.V
                  /\ ret' = r.ret
             ELSE UNCHANGED <<trunc, U, D, V, ret>>
    /\ op' = "svdRank2_IQTensor"
    /\ UNCHANGED <<args, again, lop>>

----------------------------------------------------------------------------
(* diag_hermitian(IQTensor), svdalgs.cc:728-1053: the body is commented
   out; what is left is "return Spectrum();" *)

InitBlockDiag ==
    /\ Blank
    /\ \E dvecs \in BlockSets, cplx \in BOOLEAN, a \in BlockArgs :
          args = [fn |-> "diag_hermitian_IQTensor", rank |-> 2,
                  cplx |-> cplx, dvecs |-> dvecs, args |-> a]

DiagHermitianIQTensor ==
    /\ op = "none"
    /\ args.fn = "diag_hermitian_IQTensor"
    /\ op' = "diag_hermitian_IQTensor"
    /\ outcome' = "ok"
    /\ ret' = [returned |-> TRUE, truncerr |-> Quot(0, 1), eigsKept |-> <<>>]
    /\ UNCHANGED <<args, trunc, again, U, D, V, kernelCalls, lop>>

InitBlock == InitBlockSvdReal \/ InitBlockSvdDegenerate \/ InitBlockDiag

NextBlock == SvdRank2IQTensor \/ DiagHermitianIQTensor

SpecBlock == InitBlock /\ [][NextBlock]_vars

----------------------------------------------------------------------------
(* LocalOp, part_000 (localop.h).  A pointer member is nullptr or the
   tensor it points to.  Of a tensor the model keeps what LocalOp reads:
   whether it is non-default (bool(T)) and the dimension dim of the index
   size() looks for (the "Site,0" index of Op1 / Op2, the first primed
   index of L / R) *)

(* site operators: the smallest and the largest site dimension *)
OpTensors == { [valid |-> TRUE, dim |-> d] : d \in {1, MaxSiteDim} }

(* environments: a default-constructed ITensor, and tensors whose primed
   index has the smallest or the largest dimension *)
EnvTensors ==
    { [valid |-> FALSE, dim |-> 0] }
    \cup { [valid |-> TRUE, dim |-> d] : d \in {1, MaxSiteDim} }

(* what dereferencing a null pointer gives: the process dies, or the read
   goes on with whatever is there *)
SegFault == [fault |-> TRUE]

NullDerefs == { SegFault, [valid |-> TRUE, dim |-> MaxSiteDim] }

Deref(p, g) == IF p = nullptr THEN g ELSE p

(* lines 242-251 *)
update_Op1(l, Op1) ==
    [Op1_ |-> Op1, Op2_ |-> nullptr, L_ |-> nullptr, R_ |-> nullptr,
     size_ |-> -1, nc_ |-> 1]

(* lines 253-262 *)
update_Op1_Op2(l, Op1, Op2) ==
    [Op1_ |-> Op1, Op2_ |-> Op2, L_ |-> nullptr, R_ |-> nullptr,
     size_ |-> -1, nc_ |-> 2]

(* lines 264-271 *)
update_Op1_L_R(l, Op1, L, R) ==
    [update_Op1(l, Op1) EXCEPT !.L_ = L, !.R_ = R]

(* lines 273-280 *)
update_Op1_Op2_L_R(l, Op1, Op2, L, R) ==
    [update_Op1_Op2(l, Op1, Op2) EXCEPT !.L_ = L, !.R_ = R]

(* lines 282-289: size_ is left as it is *)
updateLR(l, L, R) == [l EXCEPT !.L_ = L, !.R_ = R, !.nc_ = 0]

(* line 104 with only the upper limit tested *)
numCenterRejectsAboveOnly(val) == val > 2

(* line 104: if(val < 1 || val > 2) Error(...) *)
numCenterRejects(val) == val < 1 \/ val > 2

(* lines 101-107: the setter *)
numCenter(l, val) ==
    IF numCenterRejects(val)
    THEN [outcome |-> "Error", lop |-> l]
    ELSE [outcome |-> "ok", lop |-> [l EXCEPT !.nc_ = val]]

(* line 162: explicit operator bool() const { return bool(Op1_); } *)
operator_bool(l) == l.Op1_ # nullptr

(* lines 291-296 *)
LIsNull(l) == l.L_ = nullptr \/ ~l.L_.valid

(* lines 298-303 *)
RIsNull(l) == l.R_ = nullptr \/ ~l.R_.valid

(* lines 134-160: the accessors Op1(), Op2(), L(), R() *)
accessor(l, which, g) ==
    IF ~operator_bool(l)
    THEN [outcome |-> "Error"]
    ELSE LET p == CASE which = "Op1" -> l.Op1_
                    [] which = "Op2" -> l.Op2_
                    [] which = "L" -> l.L_
                    [] which = "R" -> l.R_
         IN IF Deref(p, g) = SegFault
            THEN [outcome |-> "SegFault"]
            ELSE [outcome |-> "ok", tensor |-> Deref(p, g)]

(* the site operators the current nc_ makes product / size / diag
   dereference, in the order product contracts them *)
OpsUsed(l) ==
    IF l.nc_ = 1 THEN <<"Op1">>
    ELSE IF l.nc_ = 2 THEN <<"Op2", "Op1">>
    ELSE <<>>

OpPtr(l, name) == IF name = "Op1" THEN l.Op1_ ELSE l.Op2_

(* a null pointer among them is dereferenced and the process dies *)
OpsCrash(l, g) ==
    \E i \in 1..Len(OpsUsed(l)) :
        Deref(OpPtr(l, OpsUsed(l)[i]), g) = SegFault

(* lines 305-353: product; the result names the tensors phi was contracted
   with, in order, and phip.replaceTags("1","0") as the last step *)
product(l, g) ==
    IF ~operator_bool(l)
    THEN [outcome |-> "Error"]
    ELSE IF OpsCrash(l, g)
    THEN [outcome |-> "SegFault"]
    ELSE [outcome |-> "ok",
          steps |-> (IF LIsNull(l)
                     THEN (IF ~RIsNull(l) THEN <<"R">> ELSE <<>>)
                          \o OpsUsed(l)
                     ELSE <<"L">> \o OpsUsed(l)
                          \o (IF ~RIsNull(l) THEN <<"R">> ELSE <<>>))
                    \o <<"replaceTags">>]

(* lines 355-361: expect = (dag(product(phi)) * phi).elt() *)
expect(l, g) ==
    IF product(l, g).outcome = "ok"
    THEN [outcome |-> "ok", steps |-> product(l, g).steps \o <<"elt">>]
    ELSE product(l, g)

(* lines 392-466: diag; the result names the tensors whose diagonals were
   multiplied *)
diag(l, g) ==
    IF ~operator_bool(l)
    THEN [outcome |-> "Error"]
    ELSE IF OpsCrash(l, g)
    THEN [outcome |-> "SegFault"]
    ELSE [outcome |-> "ok",
          steps |-> (IF l.nc_ = 2 THEN <<"Op1", "Op2">>
                     ELSE IF l.nc_ = 1 THEN <<"Op1">> ELSE <<>>)
                    \o (IF ~LIsNull(l) THEN <<"L">> ELSE <<>>)
                    \o (IF ~RIsNull(l) THEN <<"R">> ELSE <<>>)]

(* lines 468-511: size; the result holds the value returned and the object
   with its cache *)
size(l, g) ==
    IF ~operator_bool(l)
    THEN [outcome |-> "Error", lop |-> l]
    ELSE IF l.size_ # -1
    THEN [outcome |-> "ok", value |-> l.size_, lop |-> l]
    ELSE IF OpsCrash(l, g)
    THEN [outcome |-> "SegFault", lop |-> l]
    ELSE LET sL == IF ~LIsNull(l) THEN l.L_.dim ELSE 1
             sR == IF ~RIsNull(l) THEN l.R_.dim ELSE 1
             s1 == IF l.nc_ \in {1, 2} THEN Deref(l.Op1_, g).dim ELSE 1
             s2 == IF l.nc_ = 2 THEN Deref(l.Op2_, g).dim ELSE 1
             value == sL * sR * s1 * s2
         IN [outcome |-> "ok", value |-> value,
             lop |-> [l EXCEPT !.size_ = value]]

(* what the contractions of lines 367-382 leave in drho: the square
   drho * dag(prime(drho,ci)) of a vector with all entries y (0 or the
   largest entry), with the
   rounding of the one entry (1,2) off by e *)
RhoBeforeSymmetrize ==
    { [i \in 1..MaxRhoDim |-> [j \in 1..MaxRhoDim |->
          y * y + (IF i = 1 /\ j = 2 THEN e ELSE 0)]] :
        y \in {0, MaxEntry}, e \in {0, 1} }

(* lines 384-386 without the added transpose; entries as numerators over 2 *)
SymmetrizeSkipped(M) ==
    [i \in 1..Len(M) |-> [j \in 1..Len(M) |-> 2 * M[i][j]]]

(* lines 384-386: drho = drho + dag(swapTags(drho,"0","1")); drho /= 2.;
   entries as numerators over 2 *)
Symmetrize(M) ==
    [i \in 1..Len(M) |-> [j \in 1..Len(M) |-> M[i][j] + M[j][i]]]

(* lines 363-389: deltaRho; M is what the contractions give *)
deltaRho(l, dir, M, g) ==
    IF Deref(IF dir = "Fromleft" THEN l.Op1_ ELSE l.Op2_, g) = SegFault
    THEN [outcome |-> "SegFault"]
    ELSE [outcome |-> "ok",
          steps |-> IF dir = "Fromleft"
                    THEN (IF ~LIsNull(l) THEN <<"L">> ELSE <<>>) \o <<"Op1">>
                    ELSE (IF ~RIsNull(l) THEN <<"R">> ELSE <<>>) \o <<"Op2">>,
          drho |-> Symmetrize(M)]

(* the constructors, lines 172-240: LocalOp(), LocalOp(Op1),
   LocalOp(Op1,Op2), LocalOp(Op1,L,R), LocalOp(Op1,Op2,L,R) *)
Constructed ==
    { LocalOp_default }
    \cup { update_Op1(LocalOp_default, o1) : o1 \in OpTensors }
    \cup { update_Op1_Op2(LocalOp_default, o1, o2) :
             o1 \in OpTensors, o2 \in OpTensors }
    \cup { update_Op1_L_R(LocalOp_default, o1, L, R) :
             o1 \in OpTensors, L \in EnvTensors, R \in EnvTensors }
    \cup { update_Op1_Op2_L_R(LocalOp_default, o1, o2, L, R) :
             o1 \in OpTensors, o2 \in OpTensors,
             L \in EnvTensors, R \in EnvTensors }

InitLocalOp ==
    /\ op = "none"
    /\ args = [fn |-> "LocalOp"]
    /\ lop \in Constructed
    /\ trunc = NoCall
    /\ again = NoCall
    /\ U = Unassigned
    /\ D = Unassigned
    /\ V = Unassigned
    /\ ret = NoRet
    /\ outcome = "ok"
    /\ kernelCalls = 0

IsLocalOp == args.fn \in {"LocalOp", "update", "updateLR", "numCenter",
                          "accessor", "product", "expect", "diag", "size",
                          "deltaRho"}

(* a call that changes the object and returns nothing *)
Mutated(fn, l) ==
    /\ IsLocalOp
    /\ op' = fn
    /\ args' = [fn |-> fn]
    /\ lop' = l
    /\ outcome' = "ok"
    /\ ret' = NoRet
    /\ UNCHANGED <<trunc, again, U, D, V, kernelCalls>>

(* a const call: r is how it ended and what it returned *)
Queried(fn, a, r) ==
    /\ IsLocalOp
    /\ op' = fn
    /\ args' = a
    /\ outcome' = r.outcome
    /\ ret' = IF r.outcome = "ok" THEN [returned |-> TRUE, result |-> r]
              ELSE NoRet
    /\ UNCHANGED <<lop, trunc, again, U, D, V, kernelCalls>>

UpdateOp1 ==
    \E o1 \in OpTensors : Mutated("update", update_Op1(lop, o1))

UpdateOp1Op2 ==
    \E o1 \in OpTensors, o2 \in OpTensors :
        Mutated("update", update_Op1_Op2(lop, o1, o2))

UpdateOp1LR ==
    \E o1 \in OpTensors, L \in EnvTensors, R \in EnvTensors :
        Mutated("update", update_Op1_L_R(lop, o1, L, R))

UpdateOp1Op2LR ==
    \E o1 \in OpTensors, o2 \in OpTensors, L \in EnvTensors, R \in EnvTensors :
        Mutated("update", update_Op1_Op2_L_R(lop, o1, o2, L, R))

UpdateLR ==
    \E L \in EnvTensors, R \in EnvTensors :
        Mutated("updateLR", updateLR(lop, L, R))

NumCenter ==
    \E val \in 0..3 :
        /\ IsLocalOp
        /\ op' = "numCenter"
        /\ args' = [fn |-> "numCenter", val |-> val]
        /\ outcome' = numCenter(lop, val).outcome
        /\ lop' = numCenter(lop, val).lop
        /\ ret' = NoRet
        /\ UNCHANGED <<trunc, again, U, D, V, kernelCalls>>

Accessor ==
    \E which \in {"Op1", "Op2", "L", "R"}, g \in NullDerefs :
        Queried(which, [fn |-> "accessor"], accessor(lop, which, g))

Product ==
    \E g \in NullDerefs : Queried("product", [fn |-> "product"], product(lop, g))

Expect ==
    \E g \in NullDerefs : Queried("expect", [fn |-> "expect"], expect(lop, g))

Diag ==
    \E g \in NullDerefs : Queried("diag", [fn |-> "diag"], diag(lop, g))

Size ==
    \E g \in NullDerefs :
        /\ IsLocalOp
        /\ op' = "size"
        /\ args' = [fn |-> "size"]
        /\ outcome' = size(lop, g).outcome
        /\ lop' = size(lop, g).lop
        /\ ret' = IF size(lop, g).outcome = "ok"
                  THEN [returned |-> TRUE, value |-> size(lop, g).value]
                  ELSE NoRet
        /\ UNCHANGED <<trunc, again, U, D, V, kernelCalls>>

DeltaRho ==
    \E dir \in {"Fromleft", "Fromright"}, M \in RhoBeforeSymmetrize,
       g \in NullDerefs :
        Queried("deltaRho", [fn |-> "deltaRho", dir |-> dir, M |-> M],
                deltaRho(lop, dir, M, g))

NextLocalOp ==
    \/ UpdateOp1
    \/ UpdateOp1Op2
    \/ UpdateOp1LR
    \/ UpdateOp1Op2LR
    \/ UpdateLR
    \/ NumCenter
    \/ Accessor
    \/ Product
    \/ Expect
    \/ Diag
    \/ Size
    \/ DeltaRho

SpecLocalOp == InitLocalOp /\ [][NextLocalOp]_vars

----------------------------------------------------------------------------
(* The decomposition engine (svdalgs.cc) as a whole *)

Init == InitTruncate \/ InitDense \/ InitBlock

Next == NextTruncate \/ NextDense \/ NextBlock

Spec == Init /\ [][Next]_vars

----------------------------------------------------------------------------
(* Properties of truncate *)

NonNegative(P) == \A i \in 1..Len(P) : P[i] >= 0

(* the Vec with its trailing negative entries set to zero *)
TailClamped(P) ==
    [i \in 1..Len(P) |->
        IF \A j \in i..Len(P) : P[j] < 0 THEN 0 ELSE P[i]]

(* C1, as claimed: for a descending non-negative Vec and minm <= maxm, the
   kept count m satisfies minm <= m <= maxm and m >= 1 *)
C1_KeptWithinPolicy ==
    (trunc.called /\ Len(trunc.Pin) >= 1 /\ NonNegative(trunc.Pin))
        => /\ trunc.minm <= trunc.m
           /\ trunc.m <= trunc.maxm
           /\ trunc.m >= 1

(* C1, amended: for a non-empty descending Vec of length n and
   0 <= minm <= maxm, min(minm, n) <= m <= max(maxm, 1) and 1 <= m <= n *)
C1_KeptWithinReach ==
    (trunc.called /\ Len(trunc.Pin) >= 1)
        => /\ Min(trunc.minm, Len(trunc.Pin)) <= trunc.m
           /\ trunc.m <= Max(trunc.maxm, 1)
           /\ 1 <= trunc.m
           /\ trunc.m <= Len(trunc.Pin)
           /\ Len(trunc.P) = trunc.m

(* a Vec shorter than minm was truncated: everything is kept *)
C1_Witness ==
    /\ op = "truncate"
    /\ trunc.called
    /\ Len(trunc.Pin) = 2
    /\ trunc.minm = 3
    /\ trunc.m = 2

(* the weight truncate discarded: positions m+1..end of the clamped Vec *)
Discarded(t) == SumRange(TailClamped(t.Pin), t.m + 1, Len(t.Pin))

(* the policy lets the loops discard every entry of a Vec of two or more
   entries (m is then forced back to 1) *)
AllDiscarded(t) ==
    LET Pz == TailClamped(t.Pin)
        n == Len(t.Pin)
        scale == IF t.doRelCutoff THEN Pz[1] ELSE 1
    IN /\ n >= 2
       /\ \/ t.maxm = 0
          \/ /\ t.minm = 0
             /\ IF t.absoluteCutoff
                THEN \A j \in 1..Min(n, t.maxm) : Pz[j] < t.cutoff
                ELSE SumRange(Pz, 1, n) < t.cutoff * scale

(* C2, as claimed: in every mode the returned error is exactly the sum of
   the clamped weights at positions m+1..end *)
C2_ErrorIsDiscardedSum ==
    /\ (trunc.called /\ Len(trunc.Pin) >= 1)
        => QuotEq(trunc.truncerr, <<Discarded(trunc), 1>>)
    /\ (op \in {"svdRank2_ITensor", "svdRank2_IQTensor"} /\ ret.returned
         /\ trunc.called)
        => ret.truncerr = trunc.truncerr

(* C2, amended: the returned error is the sum of the clamped weights at
   positions m+1..end -- divided by the leading weight in cumulative mode
   with doRelCutoff (0 when the leading weight is 0) -- and, when the policy
   let every entry be discarded and m was forced to 1, the sum also holds
   the first weight *)
C2_ErrorIsNormalizedDiscardedSum ==
    /\ (trunc.called /\ Len(trunc.Pin) >= 1)
        => LET Pz == TailClamped(trunc.Pin)
               mass == Discarded(trunc)
                       + (IF AllDiscarded(trunc) THEN Pz[1] ELSE 0)
           IN IF trunc.absoluteCutoff \/ ~trunc.doRelCutoff
              THEN QuotEq(trunc.truncerr, <<mass, 1>>)
              ELSE IF Pz[1] = 0
                   THEN QuotEq(trunc.truncerr, <<0, 1>>)
                   ELSE QuotEq(trunc.truncerr, <<mass, Pz[1]>>)
    /\ (op \in {"svdRank2_ITensor", "svdRank2_IQTensor"} /\ ret.returned
         /\ trunc.called)
        => ret.truncerr = trunc.truncerr

(* cumulative mode with doRelCutoff discarded weight from a Vec whose
   leading weight is not 1 *)
C2_Witness ==
    /\ trunc.called
    /\ ~trunc.absoluteCutoff
    /\ trunc.doRelCutoff
    /\ trunc.Pin[1] = 2
    /\ trunc.m < Len(trunc.Pin)
    /\ Discarded(trunc) > 0

(* C3, as claimed: in both modes a second truncate with the same policy
   returns the same m and error 0 *)
C3_ReTruncateIdempotent ==
    again.called
        => /\ again.m = trunc.m
           /\ QuotEq(again.truncerr, <<0, 1>>)

(* C3, amended: in absolute-cutoff mode a second truncate with the same
   policy returns the same m, error 0 and leaves the Vec as it was *)
C3_ReTruncateIdempotentAbsolute ==
    (again.called /\ trunc.absoluteCutoff)
        => /\ again.m = trunc.m
           /\ QuotEq(again.truncerr, <<0, 1>>)
           /\ again.P = trunc.P

(* absolute mode: the first call discarded entries and left two or more, the
   second call ran *)
C3_Witness ==
    /\ again.called
    /\ trunc.absoluteCutoff
    /\ trunc.m < Len(trunc.Pin)
    /\ trunc.m >= 2
    /\ trunc.cutoff > 0

----------------------------------------------------------------------------
(* Properties of the decompositions *)

DenseCall == op \in {"svdRank2_ITensor", "diag_hermitian_ITensor"}

OutputsUntouched ==
    /\ U = Unassigned
    /\ D = Unassigned
    /\ V = Unassigned
    /\ ret = NoRet

(* total dimension of an IQIndex given by its sectors *)
IndexDim(sectors) ==
    SumRange([i \in 1..Len(sectors) |-> sectors[i].m], 1, Len(sectors))

(* the values D holds, block after block *)
PlacedValues(placed) == Concat([i \in 1..Len(placed) |-> placed[i].d], 1)

(* C4, as claimed: with truncation on, the sectors of the new index add up
   to the m truncate returned for the merged spectrum, which is at most
   Maxm, and the values kept are the m largest of the merged spectrum *)
C4_BlockCountsSumToKept ==
    (op = "svdRank2_IQTensor" /\ outcome = "ok" /\ args.args.do_truncate)
        => /\ IndexDim(D.L) = trunc.m
           /\ IndexDim(D.L) <= args.args.policy.maxm
           /\ SortDescending(SqrAll(PlacedValues(D.placed))) = trunc.P

(* how many of a block's squared singular values lie above docut *)
LocalKept(d, docut) ==
    Cardinality({ j \in 1..Len(d) : sqr(d[j]) * InvEps > docut })

(* the sectors C5 describes: one per block with local kept count >= 1, in
   block order, of that dimension, tagged by the block's quantum number *)
RECURSIVE SectorsOfKept(_, _, _, _)
SectorsOfKept(b, dvecs, blocks, docut) ==
    IF b > Len(dvecs) THEN <<>>
    ELSE (IF LocalKept(dvecs[b], docut) >= 1
          THEN <<[m |-> LocalKept(dvecs[b], docut),
                  qn |-> <<"uI", 1 + blocks[b].i1>>]>>
          ELSE <<>>)
         \o SectorsOfKept(b + 1, dvecs, blocks, docut)

(* C5, as claimed: the new index has exactly one sector for every block
   whose local kept count is >= 1, in block order, with that dimension and
   that block's quantum number; a dropped block changes nothing for the
   other blocks *)
C5_OneSectorPerKeptBlock ==
    (op = "svdRank2_IQTensor" /\ outcome = "ok" /\ args.args.do_truncate)
        => D.L = SectorsOfKept(1, args.dvecs,
                               GetBlocks(args.dvecs, args.transpose),
                               trunc.docut)

(* C6: svdRank2(IQTensor) throws ResultIsZero when A has no block or uI or
   vI has dimension 0, before any kernel call, and leaves U, D, V
   unassigned *)
C6_ResultIsZero ==
    (op = "svdRank2_IQTensor"
     /\ (Len(args.dvecs) = 0 \/ args.uIm = 0 \/ args.vIm = 0))
        => /\ outcome = "ResultIsZero"
           /\ kernelCalls = 0
           /\ OutputsUntouched

(* the tensor has blocks, its column index has dimension 0, the call threw *)
C6_Witness ==
    /\ op = "svdRank2_IQTensor"
    /\ Len(args.dvecs) >= 1
    /\ args.uIm > 0
    /\ args.vIm = 0
    /\ outcome = "ResultIsZero"

(* C7, as claimed: a dense call on a (real, rank 2) tensor with a zero
   leading dimension ends in ResultIsZero without a kernel call *)
C7_DenseZeroDimSignalsResultIsZero ==
    (DenseCall /\ args.uim = 0 /\ args.kind.rank = 2 /\ ~args.kind.cplx
     /\ (op = "diag_hermitian_ITensor" => args.hasUnprimed))
        => /\ outcome = "ResultIsZero"
           /\ kernelCalls = 0

(* C8, as claimed: a dense call on a (non-empty) tensor of rank other than
   2, or on complex data, ends in an error and leaves U, D, V untouched *)
C8_DenseUnsupportedIsError ==
    (DenseCall /\ args.uim >= 1 /\ (args.kind.rank # 2 \/ args.kind.cplx))
        => /\ outcome = "Error"
           /\ OutputsUntouched

(* C9, as claimed: diag_hermitian(IQTensor) never returns normally *)
C9_BlockDiagIsError ==
    op = "diag_hermitian_IQTensor" => outcome = "Error"

(* the entry of A at ui = i, vi = j, without A's scale *)
EntryOfA(i, j) ==
    IF args.uiFirst THEN args.store.a[i][j] ELSE args.store.a[j][i]

(* the entry of U * D * V at ui = i, vi = j *)
EntryOfUDV(i, j) ==
    SumRange([k \in 1..Len(D.diag) |->
                (U.scale * U.store.a[i][k]) * (D.scale * D.diag[k])
                * (V.scale * V.store.a[j][k])],
             1, Len(D.diag))

(* C10: dense svd with Truncate=false returns U, D, V with U * D * V = A
   for either sign of A's scale; D has scale |scale(A)| and a non-negative
   diagonal, and the signs of the three scales multiply to the sign of A's
   scale *)
C10_DenseReconstruction ==
    (op = "svdRank2_ITensor" /\ outcome = "ok" /\ args.kind.rank = 2
     /\ ~args.args.do_truncate)
        => /\ \A i \in 1..args.uim, j \in 1..args.vim :
                EntryOfUDV(i, j) = args.scale * EntryOfA(i, j)
           /\ D.scale = Abs(args.scale)
           /\ \A k \in 1..Len(D.diag) : D.diag[k] >= 0
           /\ Sign(U.scale) * Sign(D.scale) * Sign(V.scale) = Sign(args.scale)

(* a non-symmetric matrix with negative scale, vi its first index, was
   decomposed without truncation *)
C10_Witness ==
    /\ op = "svdRank2_ITensor"
    /\ outcome = "ok"
    /\ args.kind.rank = 2
    /\ ~args.args.do_truncate
    /\ args.scale < 0
    /\ ~args.uiFirst
    /\ args.uim = 2
    /\ args.store.a[1][2] # args.store.a[2][1]

----------------------------------------------------------------------------
(* Further properties of truncate *)

(* C18: for a Vec with exactly one entry w, truncate returns m = 1, error 0
   and docut = w/2 for every policy, and leaves the entry as it was *)
C18_SingleEntry ==
    (trunc.called /\ Len(trunc.Pin) = 1)
        => /\ trunc.m = 1
           /\ QuotEq(trunc.truncerr, <<0, 1>>)
           /\ 2 * trunc.docut = InvEps * trunc.Pin[1]
           /\ trunc.P = trunc.Pin

(* a single weight under an absolute cutoff was handed to truncate *)
C18_Witness ==
    /\ op = "truncate"
    /\ trunc.called
    /\ trunc.Pin = <<1>>
    /\ trunc.absoluteCutoff
    /\ trunc.cutoff = 2
    /\ trunc.docut = InvEps \div 2

(* C19: in absolute mode on n >= 2 entries with 1 <= minm <= maxm, m is at
   most min(n, maxm), every kept entry above position minm has weight
   >= cutoff, every discarded entry at a position <= maxm has weight
   < cutoff, and the error is the plain sum of the discarded weights *)
C19_AbsoluteCutoff ==
    (trunc.called /\ trunc.absoluteCutoff /\ Len(trunc.Pin) >= 2
     /\ 1 <= trunc.minm /\ trunc.minm <= trunc.maxm)
        => LET Pz == TailClamped(trunc.Pin)
               n == Len(trunc.Pin)
           IN /\ trunc.m <= Min(n, trunc.maxm)
              /\ \A i \in (trunc.minm + 1)..trunc.m : Pz[i] >= trunc.cutoff
              /\ \A j \in (trunc.m + 1)..Min(n, trunc.maxm) :
                    Pz[j] < trunc.cutoff
              /\ QuotEq(trunc.truncerr, <<Discarded(trunc), 1>>)

(* absolute mode stopped above minm at a weight equal to the cutoff, after
   discarding weight *)
C19_Witness ==
    /\ trunc.called
    /\ trunc.absoluteCutoff
    /\ trunc.Pin = <<2, 2, 1>>
    /\ trunc.cutoff = 2
    /\ trunc.minm = 1
    /\ trunc.maxm = 3
    /\ trunc.m = 2

(* C20, as claimed: in cumulative mode, when maxm is not binding the
   discarded mass is < cutoff*scale; m = minm or the discarded mass (the
   weight forced out by maxm included) plus the weight at m is
   >= cutoff*scale; the error is the discarded mass over scale, or 0 when
   the leading weight is 0 *)
C20_CumulativeCutoff ==
    (trunc.called /\ ~trunc.absoluteCutoff /\ Len(trunc.Pin) >= 1)
        => LET Pz == TailClamped(trunc.Pin)
               n == Len(trunc.Pin)
               scale == IF trunc.doRelCutoff THEN Pz[1] ELSE 1
               mass == Discarded(trunc)
           IN /\ n <= trunc.maxm => mass < trunc.cutoff * scale
              /\ \/ trunc.m = trunc.minm
                 \/ mass + Pz[trunc.m] >= trunc.cutoff * scale
              /\ IF Pz[1] = 0
                 THEN QuotEq(trunc.truncerr, <<0, 1>>)
                 ELSE QuotEq(trunc.truncerr, <<mass, scale>>)

(* C20, amended: in cumulative mode, when maxm is not binding the discarded
   mass is 0 or < cutoff*scale; m <= max(minm, 1) or the discarded mass (the
   weight forced out by maxm included) plus the weight at m is
   >= cutoff*scale; the error is the discarded mass -- plus the first
   weight when every entry was discarded and m forced back to 1 -- over
   scale, or 0 when the leading weight is 0 *)
C20_CumulativeCutoffReached ==
    (trunc.called /\ ~trunc.absoluteCutoff /\ Len(trunc.Pin) >= 1)
        => LET Pz == TailClamped(trunc.Pin)
               n == Len(trunc.Pin)
               scale == IF trunc.doRelCutoff THEN Pz[1] ELSE 1
               mass == Discarded(trunc)
               accumulated == mass + (IF AllDiscarded(trunc) THEN Pz[1] ELSE 0)
           IN /\ n <= trunc.maxm
                   => (mass = 0 \/ mass < trunc.cutoff * scale)
              /\ \/ trunc.m <= Max(trunc.minm, 1)
                 \/ mass + Pz[trunc.m] >= trunc.cutoff * scale
              /\ IF Pz[1] = 0
                 THEN QuotEq(trunc.truncerr, <<0, 1>>)
                 ELSE QuotEq(trunc.truncerr, <<accumulated, scale>>)

(* cumulative mode, maxm binding: the weight forced out by maxm used up
   part of the budget, the loop discarded one more entry and stopped above
   minm *)
C20_Witness ==
    /\ trunc.called
    /\ ~trunc.absoluteCutoff
    /\ ~trunc.doRelCutoff
    /\ Len(trunc.Pin) = 3
    /\ trunc.maxm = 2
    /\ trunc.minm = 0
    /\ trunc.m = 1
    /\ Discarded(trunc) > 0
    /\ ~AllDiscarded(trunc)

----------------------------------------------------------------------------
(* Further properties of the decompositions *)

BlockSvdDone == op = "svdRank2_IQTensor" /\ outcome = "ok"

(* C11, as claimed: block-sparse svd gives D a non-negative scale, and the
   signs of the scales of U, D and V multiply to the sign of A's scale *)
C11_BlockSignConvention ==
    BlockSvdDone
        => /\ D.scale >= 0
           /\ Sign(U.scale) * Sign(D.scale) * Sign(V.scale) = Sign(args.scale)

IsDescending(v) == \A i \in 1..(Len(v) - 1) : v[i] >= v[i + 1]

(* C12, as claimed: the Spectrum block-sparse svd returns is descending and
   non-negative, as long as the new index, and holds the squares of the
   singular values kept in D (with or without the square of A's scale) *)
C12_BlockSpectrumSortedSquaredKept ==
    BlockSvdDone
        => /\ IsDescending(ret.eigsKept)
           /\ NonNegative(ret.eigsKept)
           /\ Len(ret.eigsKept) = IndexDim(D.L)
           /\ \E c \in {1, sqr(args.scale)} :
                ret.eigsKept
                  = ScaleVec(SortDescending(SqrAll(PlacedValues(D.placed))), c)

(* what the caller sees of a call: how it ended and, if it returned, the
   outputs and the Spectrum *)
Seen(r) ==
    IF r.outcome = "ok"
    THEN [outcome |-> r.outcome, U |-> r.U, D |-> r.D, V |-> r.V,
          ret |-> r.ret]
    ELSE [outcome |-> r.outcome]

ShowEigsIs(a, b) == [a EXCEPT !.show_eigs = b]

(* C17, as claimed: with Truncate=false dense and block-sparse svd keep
   every singular value and report error 0; and for the same input and
   policy the outputs and the Spectrum are the same with ShowEigs=true as
   with ShowEigs=false *)
C17_TruncateOffKeepsAllShowEigsInert ==
    /\ (op = "svdRank2_ITensor" /\ outcome = "ok" /\ args.kind.rank = 2
        /\ ~args.args.do_truncate)
          => /\ Len(D.diag) = Min(args.uim, args.vim)
             /\ QuotEq(ret.truncerr, <<0, 1>>)
    /\ (BlockSvdDone /\ ~args.args.do_truncate)
          => /\ IndexDim(D.L) = Len(Concat(args.dvecs, 1))
             /\ QuotEq(ret.truncerr, <<0, 1>>)
    /\ (op = "svdRank2_ITensor" /\ args.args.show_eigs)
          => \A f \in SVD(toMatRefc(args.store, args.uiFirst)) :
                Seen(svdRank2_ITensor(args.kind, args.store, args.uiFirst,
                                      args.scale, args.args, f, args.oob))
                = Seen(svdRank2_ITensor(args.kind, args.store, args.uiFirst,
                                        args.scale,
                                        ShowEigsIs(args.args, FALSE), f,
                                        args.oob))
    /\ (op = "svdRank2_IQTensor" /\ args.args.show_eigs)
          => [outcome |-> outcome, U |-> U, D |-> D, V |-> V, ret |-> ret]
             = LET r == svdRank2_IQTensor(args.rank, args.cplx, args.dvecs,
                                          args.transpose, args.uIm, args.vIm,
                                          args.scale,
                                          ShowEigsIs(args.args, FALSE),
                                          args.movedEmpty, args.oob)
               IN IF r.outcome = "ok"
                  THEN Seen(r)
                  ELSE [outcome |-> r.outcome, U |-> Unassigned,
                        D |-> Unassigned, V |-> Unassigned, ret |-> NoRet]

----------------------------------------------------------------------------
(* Properties of LocalOp *)

UsesReferences ==
    op \in {"Op1", "Op2", "L", "R", "product", "expect", "deltaRho", "diag",
            "size"}

(* C13, as claimed: every operation that uses the referenced tensors ends
   in an Error when invoked on a null LocalOp *)
C13_NullLocalOpIsError ==
    (UsesReferences /\ ~operator_bool(lop)) => outcome = "Error"

(* C14: numCenter(val) with val outside {1,2} ends in an Error and leaves
   the object as it was; with val in {1,2} it sets nc_ to val and changes
   nothing else *)
C14_NumCenterSetter ==
    [][args'.fn = "numCenter"
         => IF args'.val \in {1, 2}
            THEN outcome' = "ok" /\ lop' = [lop EXCEPT !.nc_ = args'.val]
            ELSE outcome' = "Error" /\ lop' = lop]_vars

(* numCenter(0) was refused on a two-site LocalOp whose size is cached *)
C14_Witness ==
    /\ op = "numCenter"
    /\ args.val = 0
    /\ outcome = "Error"
    /\ lop.nc_ = 2
    /\ lop.size_ # -1

(* the size computed from what the object refers to now *)
FreshSize(l) == size([l EXCEPT !.size_ = -1], SegFault).value

(* C15, as claimed: whenever size() returns (and the site operators its
   numCenter needs are present), the value is the product of dimensions of
   the currently referenced L, R, Op1, Op2 for the current numCenter *)
C15_SizeNeverStale ==
    (op = "size" /\ outcome = "ok" /\ ~OpsCrash(lop, SegFault))
        => ret.value = FreshSize(lop)

(* C16: the matrix deltaRho returns equals its own transpose *)
C16_DeltaRhoSymmetric ==
    (op = "deltaRho" /\ outcome = "ok")
        => \A i \in 1..MaxRhoDim, j \in 1..MaxRhoDim :
              ret.result.drho[i][j] = ret.result.drho[j][i]

(* deltaRho from the right, through R and Op2, returned after the
   contractions had left a matrix that is not symmetric *)
C16_Witness ==
    /\ op = "deltaRho"
    /\ outcome = "ok"
    /\ args.dir = "Fromright"
    /\ ~RIsNull(lop)
    /\ lop.Op2_ # nullptr
    /\ args.M[1][2] # args.M[2][1]

(* C21, as claimed: in every state reached through the constructors, the
   update overloads, updateLR and the numCenter setter, nc_ is 0, 1 or 2 and
   a non-null LocalOp has the site operators its nc_ asks for (Op2 when
   nc_ = 2, Op1 when nc_ >= 1), so that product, diag, size and deltaRho on
   a non-null LocalOp never dereference an absent operator *)
C21_ValidForNumCenter ==
    /\ lop.nc_ \in {0, 1, 2}
    /\ operator_bool(lop)
          => /\ (lop.nc_ = 2 => lop.Op2_ # nullptr)
             /\ (lop.nc_ >= 1 => lop.Op1_ # nullptr)
    /\ (op \in {"product", "diag", "size", "deltaRho"} /\ operator_bool(lop))
          => outcome # "SegFault"

(* the order C23 claims for product: L, Op1, Op2, R, each if it takes part,
   and the prime level stripped at the end *)
ClaimedProductOrder(l) ==
    (IF ~LIsNull(l) THEN <<"L">> ELSE <<>>)
    \o (IF l.nc_ = 2 THEN <<"Op1", "Op2">>
        ELSE IF l.nc_ = 1 THEN <<"Op1">> ELSE <<>>)
    \o (IF ~RIsNull(l) THEN <<"R">> ELSE <<>>)
    \o <<"replaceTags">>

(* C23, as claimed: product contracts phi with L (if present), then Op1,
   then Op2 (as many as nc_ says), then R (if present), and strips the
   prime level after all of them *)
C23_ProductOrder ==
    (op = "product" /\ outcome = "ok")
        => ret.result.steps = ClaimedProductOrder(lop)

----------------------------------------------------------------------------
(* Further properties of diag_hermitian(ITensor) *)

(* the eigenvalues of rho = scale * store *)
TrueEigs == ScaleVec(args.eig, args.scale)

(* C22, as claimed: with the kernel returning eigenvalues ascending, dense
   diag_hermitian hands truncate a descending Vec and returns a descending
   Spectrum, for either sign of the scale; when truncating a rho without
   negative eigenvalues the ones kept are the largest *)
C22_DenseDiagDescending ==
    (op = "diag_hermitian_ITensor" /\ outcome = "ok" /\ args.uim >= 1)
        => /\ IsDescending(ret.eigsKept)
           /\ args.args.do_truncate
                 => /\ IsDescending(trunc.Pin)
                    /\ NonNegative(TrueEigs)
                          => ret.eigsKept
                               = SubSeq(SortDescending(TrueEigs), 1,
                                        Len(ret.eigsKept))

====
